---- MODULE Spec2Model ----
\* State-machine model of the assignment API as it stands in the repository:
\* the tables of database/schema.sql with their constraints, the db module
\* (pool, addTrackedCourse, removeTrackedCourse, getTrackedCourses) and app.js.
\*
\* app.js does not compile: it holds the server twice, lines 1-485 and lines
\* 487-724, and the consts of lines 3-55 (express, jwt, bcrypt, AWS, multer,
\* fs, app, upload, the helpers, SECRET, PORT) are declared again at lines
\* 489-531 in the same scope. Loading it is a SyntaxError before any statement
\* runs: no route is registered, app.listen is never called, no handler of
\* either copy ever runs. A request sent to the API is therefore never
\* answered, and the handlers are not modelled as running code.
\*
\* What does load is the db module and the schema. The helpers of the db
\* module are async functions: a call runs atomically between two awaits
\* (pool.connect(), client.query(...)) and gives the event loop back at each.
\* The store runs a helper's statement while the call waits at
\* `await client.query(...)`; the result arrives, and the call goes on, in a
\* later turn. Sending, running and the arrival of the result are steps of
\* their own, so other calls' statements run between them. The tables are reached by the helpers and by statements run on the
\* store directly; every statement is atomic and subject to the constraints
\* of the schema.
EXTENDS Integers, Sequences, FiniteSets, TLC

VARIABLES
    users,        \* table users: id -> row
    courses,      \* table courses: id -> row
    assignments,  \* table assignments: id -> row
    seq,          \* the SERIAL sequences of the three tables (last value drawn)
    checkedOut,   \* connections of the pool checked out by pool.connect()
    call,         \* the helper calls in flight: slot -> activation
    stmt,         \* the last statement run on the store directly, and its outcome
    req           \* the requests sent to the API: slot -> request and answer

vars == <<users, courses, assignments, seq, checkedOut, call, stmt, req>>

-----------------------------------------------------------------------------
\* Bounds of the model.

MaxUserId == 3        \* values drawn from users_id_seq
MaxCourseId == 2      \* values drawn from courses_id_seq
MaxAssignmentId == 2  \* values drawn from assignments_id_seq
MaxTracked == 3       \* length of a tracked_courses array
MaxDangling == 2      \* the same, where courses are created and deleted too

Slots == {"r1", "r2"}                 \* helper calls, or requests, in flight together
Emails == {"a@x.com", "b@x.com", "c@x.com"}
Passwords == {"pw1", "pw2"}

UserIds == 1..MaxUserId
CourseIds == 1..MaxCourseId
TrackedIds == {1, 2}                  \* course ids given to the helpers
AssignmentIds == 1..MaxAssignmentId

\* SQL NULL in an integer column (assignments.course_id is nullable).
NULL == 0

-----------------------------------------------------------------------------
\* Credentials (bcryptjs, jsonwebtoken), as the login contract reads them.

\* bcrypt.hashSync(password, 8) with the salt it generated: the hash carries
\* its salt and is a one-way image of (salt, password).
hashSync(password, salt) == <<"$2a$08", salt, password>>

\* bcrypt.compareSync(password, hash): re-hashes with the salt of the hash.
compareSync(password, hash) == hashSync(password, hash[2]) = hash

\* jwt.sign({ id, verified }, SECRET, { expiresIn: 86400 }): the payload.
sign(user) == [id |-> user.id, verified |-> user.verified]

-----------------------------------------------------------------------------
\* PostgreSQL array functions used on users.tracked_courses.

RECURSIVE array_remove(_, _)
\* A variant of array_remove that removes the first element equal to x only.
array_removeFirstOnly(arr, x) ==
    IF \E i \in 1..Len(arr) : arr[i] = x
    THEN LET i == CHOOSE k \in 1..Len(arr) :
                      arr[k] = x /\ \A j \in 1..(k - 1) : arr[j] # x
         IN SubSeq(arr, 1, i - 1) \o SubSeq(arr, i + 1, Len(arr))
    ELSE arr

\* array_remove(anyarray, anyelement): removes all elements equal to x.
array_remove(arr, x) ==
    IF arr = <<>> THEN <<>>
    ELSE IF Head(arr) = x THEN array_remove(Tail(arr), x)
    ELSE <<Head(arr)>> \o array_remove(Tail(arr), x)

\* A variant of array_append that skips an element present already.
array_appendUnique(arr, x) ==
    IF \E i \in 1..Len(arr) : arr[i] = x THEN arr ELSE Append(arr, x)

\* array_append(anyarray, anyelement): appends x to the end of the array.
array_append(arr, x) == arr \o <<x>>

\* Number of occurrences of x in arr.
Count(arr, x) == Cardinality({i \in 1..Len(arr) : arr[i] = x})

Contains(arr, x) == \E i \in 1..Len(arr) : arr[i] = x

-----------------------------------------------------------------------------
\* Statements on the tables of schema.sql. Each is one atomic statement; a
\* statement that violates a constraint fails (err) and changes no table, but
\* a value it drew from a sequence stays drawn.

\* SELECT * FROM users WHERE email = $1
SelectUsersByEmail(U, email) == {U[i] : i \in {j \in DOMAIN U : U[j].email = email}}

\* A variant of UniqueEmail for a column without the constraint.
UniqueEmailUnchecked(U, email) == TRUE

\* users.email VARCHAR(255) UNIQUE NOT NULL
UniqueEmail(U, email) == \A i \in DOMAIN U : U[i].email # email

\* INSERT INTO users (email, password_hash) VALUES ($1, $2): id from the
\* sequence, verified DEFAULT FALSE, tracked_courses DEFAULT '{}'.
InsertUser(U, last, email, password_hash) ==
    LET id == last + 1
        row == [id |-> id, email |-> email, password_hash |-> password_hash,
                verified |-> FALSE, tracked_courses |-> <<>>]
    IN IF UniqueEmail(U, email)
       THEN [err |-> FALSE, last |-> id,
             users |-> [i \in DOMAIN U \cup {id} |-> IF i = id THEN row ELSE U[i]]]
       ELSE [err |-> TRUE, last |-> id, users |-> U]

\* A variant of UpdateAppend that assigns the array: SET tracked_courses = ARRAY[$1].
UpdateAssign(U, courseId, userId) ==
    [i \in DOMAIN U |->
        IF i = userId THEN [U[i] EXCEPT !.tracked_courses = <<courseId>>] ELSE U[i]]

\* UPDATE users SET tracked_courses = array_append(tracked_courses, $1) WHERE id = $2
UpdateAppend(U, courseId, userId) ==
    [i \in DOMAIN U |->
        IF i = userId
        THEN [U[i] EXCEPT !.tracked_courses = array_append(@, courseId)]
        ELSE U[i]]

\* UPDATE users SET tracked_courses = array_remove(tracked_courses, $1) WHERE id = $2
UpdateRemove(U, courseId, userId) ==
    [i \in DOMAIN U |->
        IF i = userId
        THEN [U[i] EXCEPT !.tracked_courses = array_remove(@, courseId)]
        ELSE U[i]]

\* SELECT tracked_courses FROM users WHERE id = $1
SelectTracked(U, userId) ==
    {[tracked_courses |-> U[i].tracked_courses] : i \in {j \in DOMAIN U : j = userId}}

\* INSERT INTO courses (name) VALUES ($1)
InsertCourse(C, last, name) ==
    LET id == last + 1
        row == [id |-> id, name |-> name, description |-> "NULL", instructor |-> "NULL"]
    IN [last |-> id,
        courses |-> [i \in DOMAIN C \cup {id} |-> IF i = id THEN row ELSE C[i]]]

\* A variant of References for a plain integer column, with no constraint.
ReferencesUnchecked(C, course_id) == TRUE

\* assignments.course_id INTEGER REFERENCES courses(id): a value that is not
\* NULL is the id of a course.
References(C, course_id) == course_id = NULL \/ course_id \in DOMAIN C

\* A stored assignment has course_id = id.
Referenced(A, id) == \E a \in DOMAIN A : A[a].course_id = id

\* DELETE FROM courses WHERE id = $1; the reference from assignments.course_id
\* has no ON DELETE action, so a referenced course cannot be deleted.
DeleteCourse(C, A, id) ==
    IF id \notin DOMAIN C THEN [err |-> FALSE, courses |-> C]
    ELSE IF Referenced(A, id)
    THEN [err |-> TRUE, courses |-> C]
    ELSE [err |-> FALSE, courses |-> [i \in DOMAIN C \ {id} |-> C[i]]]

\* INSERT INTO assignments (title, course_id) VALUES ($1, $2)
InsertAssignment(A, C, last, title, course_id) ==
    LET id == last + 1
        row == [id |-> id, title |-> title, description |-> "NULL",
                due_date |-> "NULL", course_id |-> course_id, file_path |-> "NULL"]
    IN IF References(C, course_id)
       THEN [err |-> FALSE, last |-> id,
             assignments |-> [i \in DOMAIN A \cup {id} |-> IF i = id THEN row ELSE A[i]]]
       ELSE [err |-> TRUE, last |-> id, assignments |-> A]

\* UPDATE assignments SET title = $1, course_id = $2 WHERE id = $3
UpdateAssignment(A, C, id, title, course_id) ==
    IF id \notin DOMAIN A THEN [err |-> FALSE, assignments |-> A]
    ELSE IF ~References(C, course_id)
    THEN [err |-> TRUE, assignments |-> A]
    ELSE [err |-> FALSE,
          assignments |-> [A EXCEPT ![id] = [@ EXCEPT !.title = title,
                                                      !.course_id = course_id]]]

\* DELETE FROM assignments WHERE id = $1
DeleteAssignment(A, id) ==
    [assignments |-> [i \in DOMAIN A \ {id} |-> A[i]]]

-----------------------------------------------------------------------------
\* Activations of the helpers of the db module, statements, requests.

\* No helper call was made in the slot.
NoCall == [op |-> "none", pc |-> "idle", userId |-> 0, courseId |-> 0,
           rows |-> {}, outcome |-> "none", value |-> <<>>]

\* No statement was run on the store directly.
NoStmt == [op |-> "none", args |-> <<>>, err |-> FALSE]

\* No request was sent in the slot.
NoRequest == [op |-> "none", params |-> <<>>, pc |-> "idle", status |-> 0,
              body |-> "none"]

\* The slot takes a new helper call: none was made, or the last one settled.
Free(r) == call[r].pc \in {"idle", "done"}

\* The async function is invoked and runs up to `await pool.connect()`.
Invoke(r, op, userId, courseId) ==
    /\ Free(r)
    /\ call' = [call EXCEPT ![r] = [op |-> op, pc |-> "connect", userId |-> userId,
                                    courseId |-> courseId, rows |-> {},
                                    outcome |-> "none", value |-> <<>>]]
    /\ UNCHANGED <<users, courses, assignments, seq, checkedOut, stmt, req>>

\* The promise of the call settles: outcome is "resolved" (with value) or the
\* error the call rejects with.
Settle(r, outcome, value) ==
    call' = [call EXCEPT ![r] = [@ EXCEPT !.pc = "done", !.outcome = outcome,
                                          !.value = value]]

\* The routes app.js would register, with the parameters of a request.
Requests ==
    {[op |-> op, params |-> <<email, password>>] :
        op \in {"createUser", "loginUser"}, email \in Emails, password \in Passwords}
    \cup {[op |-> op, params |-> <<userId>>] :
        op \in {"verifyUser", "getTrackedCoursesForUser"}, userId \in UserIds}
    \cup {[op |-> op, params |-> <<userId, courseId>>] :
        op \in {"trackCourse", "untrackCourse"}, userId \in UserIds,
        courseId \in TrackedIds}
    \cup {[op |-> op, params |-> <<id>>] :
        op \in {"updateCourse", "deleteCourse"}, id \in CourseIds}
    \cup {[op |-> op, params |-> <<id>>] :
        op \in {"updateAssignment", "deleteAssignment", "uploadAssignment"},
        id \in AssignmentIds}
    \cup {[op |-> op, params |-> <<>>] :
        op \in {"createCourse", "createAssignment", "getAllUsers", "getVerifiedUsers",
                "getUnverifiedUsers", "getAllCourses", "getAllAssignments"}}

-----------------------------------------------------------------------------
\* The helpers of the db module, called directly.

\* addTrackedCourse(userId, courseId), up to the first await.
addTrackedCourse(r, userId, courseId) == Invoke(r, "addTrackedCourse", userId, courseId)

\* removeTrackedCourse(userId, courseId), up to the first await.
removeTrackedCourse(r, userId, courseId) ==
    Invoke(r, "removeTrackedCourse", userId, courseId)

\* getTrackedCourses(userId), up to the first await.
getTrackedCourses(r, userId) == Invoke(r, "getTrackedCourses", userId, 0)

\* const client = await pool.connect() resolves: a connection is checked out,
\* and in the same turn client.query(...) sends the statement; the call waits
\* at `await client.query(...)`.
connect(r) ==
    /\ call[r].pc = "connect"
    /\ checkedOut' = checkedOut + 1
    /\ call' = [call EXCEPT ![r] = [@ EXCEPT !.pc = "query"]]
    /\ UNCHANGED <<users, courses, assignments, seq, stmt, req>>

\* pool.connect() rejects: the await is outside the try block, no connection
\* was checked out, the call rejects.
connectThrows(r) ==
    /\ call[r].pc = "connect"
    /\ Settle(r, "ConnectError", <<>>)
    /\ UNCHANGED <<users, courses, assignments, seq, checkedOut, stmt, req>>

\* The store runs the statement of an addTrackedCourse call (UPDATE ...
\* array_append ...) while the call waits at the await; the result is on its
\* way. The statement matches no row for an id that is not stored.
addTrackedCourseQuery(r) ==
    /\ call[r].pc = "query"
    /\ call[r].op = "addTrackedCourse"
    /\ users' = UpdateAppend(users, call[r].courseId, call[r].userId)
    /\ call' = [call EXCEPT ![r] = [@ EXCEPT !.pc = "result"]]
    /\ UNCHANGED <<courses, assignments, seq, checkedOut, stmt, req>>

\* The store runs the statement of a removeTrackedCourse call (UPDATE ...
\* array_remove ...) while the call waits at the await.
removeTrackedCourseQuery(r) ==
    /\ call[r].pc = "query"
    /\ call[r].op = "removeTrackedCourse"
    /\ users' = UpdateRemove(users, call[r].courseId, call[r].userId)
    /\ call' = [call EXCEPT ![r] = [@ EXCEPT !.pc = "result"]]
    /\ UNCHANGED <<courses, assignments, seq, checkedOut, stmt, req>>

\* The store runs the SELECT of a getTrackedCourses call while the call waits
\* at the await: the rows are those of the table at this step.
getTrackedCoursesQuery(r) ==
    /\ call[r].pc = "query"
    /\ call[r].op = "getTrackedCourses"
    /\ call' = [call EXCEPT ![r] = [@ EXCEPT !.pc = "result",
                                            !.rows = SelectTracked(users, call[r].userId)]]
    /\ UNCHANGED <<users, courses, assignments, seq, checkedOut, stmt, req>>

\* The result of the UPDATE arrives at an addTrackedCourse or
\* removeTrackedCourse call: the try block ends, finally client.release(),
\* the call resolves.
release(r) ==
    /\ call[r].pc = "result"
    /\ call[r].op \in {"addTrackedCourse", "removeTrackedCourse"}
    /\ checkedOut' = checkedOut - 1
    /\ Settle(r, "resolved", <<>>)
    /\ UNCHANGED <<users, courses, assignments, seq, stmt, req>>

\* The result of the SELECT arrives at a getTrackedCourses call:
\* return result.rows[0].tracked_courses; finally client.release().
\* With no row, rows[0] is undefined and the property read throws a TypeError:
\* the finally block releases the connection and the call rejects.
getTrackedCoursesReturn(r) ==
    /\ call[r].pc = "result"
    /\ call[r].op = "getTrackedCourses"
    /\ IF call[r].rows = {}
       THEN Settle(r, "TypeError", <<>>)
       ELSE Settle(r, "resolved", (CHOOSE row \in call[r].rows : TRUE).tracked_courses)
    /\ checkedOut' = checkedOut - 1
    /\ UNCHANGED <<users, courses, assignments, seq, stmt, req>>

\* A variant of queryThrows whose finally block does not release.
queryThrowsNoRelease(r) ==
    /\ call[r].pc \in {"query", "result"}
    /\ Settle(r, "QueryError", <<>>)
    /\ UNCHANGED <<users, courses, assignments, seq, checkedOut, stmt, req>>

\* client.query(...) rejects: the statement failed or the connection was lost
\* before the store ran it (pc "query", no row changed), or the connection was
\* lost after the store ran it and before its result arrived (pc "result", the
\* change stays). The finally block releases the connection, the call rejects.
queryThrows(r) ==
    /\ call[r].pc \in {"query", "result"}
    /\ checkedOut' = checkedOut - 1
    /\ Settle(r, "QueryError", <<>>)
    /\ UNCHANGED <<users, courses, assignments, seq, stmt, req>>

-----------------------------------------------------------------------------
\* Statements run on the store directly (the handlers that would run them
\* never do), each under the constraints of schema.sql.

\* INSERT INTO users (email, password_hash)
execInsertUser(email, password_hash) ==
    /\ seq.users < MaxUserId
    /\ LET res == InsertUser(users, seq.users, email, password_hash)
       IN /\ users' = res.users
          /\ seq' = [seq EXCEPT !.users = res.last]
          /\ stmt' = [op |-> "insertUser", args |-> <<email>>, err |-> res.err]
    /\ UNCHANGED <<courses, assignments, checkedOut, call, req>>

\* INSERT INTO courses (name)
execInsertCourse(name) ==
    /\ seq.courses < MaxCourseId
    /\ LET res == InsertCourse(courses, seq.courses, name)
       IN /\ courses' = res.courses
          /\ seq' = [seq EXCEPT !.courses = res.last]
          /\ stmt' = [op |-> "insertCourse", args |-> <<name>>, err |-> FALSE]
    /\ UNCHANGED <<users, assignments, checkedOut, call, req>>

\* A variant of execDeleteCourse that also strips the id from every
\* tracked_courses array.
execDeleteCourseCascade(id) ==
    LET res == DeleteCourse(courses, assignments, id)
    IN /\ courses' = res.courses
       /\ users' = [u \in DOMAIN users |->
                      [users[u] EXCEPT !.tracked_courses =
                          IF res.err THEN @ ELSE array_remove(@, id)]]
       /\ stmt' = [op |-> "deleteCourse", args |-> <<id>>, err |-> res.err]
       /\ UNCHANGED <<assignments, seq, checkedOut, call, req>>

\* DELETE FROM courses WHERE id = $1
execDeleteCourse(id) ==
    LET res == DeleteCourse(courses, assignments, id)
    IN /\ courses' = res.courses
       /\ stmt' = [op |-> "deleteCourse", args |-> <<id>>, err |-> res.err]
       /\ UNCHANGED <<users, assignments, seq, checkedOut, call, req>>

\* INSERT INTO assignments (title, course_id)
execInsertAssignment(title, course_id) ==
    /\ seq.assignments < MaxAssignmentId
    /\ LET res == InsertAssignment(assignments, courses, seq.assignments, title, course_id)
       IN /\ assignments' = res.assignments
          /\ seq' = [seq EXCEPT !.assignments = res.last]
          /\ stmt' = [op |-> "insertAssignment", args |-> <<title, course_id>>,
                      err |-> res.err]
    /\ UNCHANGED <<users, courses, checkedOut, call, req>>

\* UPDATE assignments SET title = $1, course_id = $2 WHERE id = $3
execUpdateAssignment(id, title, course_id) ==
    LET res == UpdateAssignment(assignments, courses, id, title, course_id)
    IN /\ assignments' = res.assignments
       /\ stmt' = [op |-> "updateAssignment", args |-> <<id, title, course_id>>,
                   err |-> res.err]
       /\ UNCHANGED <<users, courses, seq, checkedOut, call, req>>

\* DELETE FROM assignments WHERE id = $1
execDeleteAssignment(id) ==
    LET res == DeleteAssignment(assignments, id)
    IN /\ assignments' = res.assignments
       /\ stmt' = [op |-> "deleteAssignment", args |-> <<id>>, err |-> FALSE]
       /\ UNCHANGED <<users, courses, seq, checkedOut, call, req>>

-----------------------------------------------------------------------------
\* app.js.

\* A request is sent to the API. app.js failed to compile (the consts of
\* lines 3-55 are declared again at lines 489-531), so app.listen never ran:
\* nothing accepts the request, no handler runs, no response is sent
\* (status 0), and no table changes.
request(r, q) ==
    /\ req' = [req EXCEPT ![r] = [op |-> q.op, params |-> q.params, pc |-> "done",
                                  status |-> 0, body |-> "none"]]
    /\ UNCHANGED <<users, courses, assignments, seq, checkedOut, call, stmt>>

-----------------------------------------------------------------------------
\* Specifications.

\* The schema was loaded into an empty database, the db module was required
\* (its pool holds every connection), no helper was called, no statement was
\* run and no request was sent.
Init ==
    /\ users = <<>>
    /\ courses = <<>>
    /\ assignments = <<>>
    /\ seq = [users |-> 0, courses |-> 0, assignments |-> 0]
    /\ checkedOut = 0
    /\ call = [r \in Slots |-> NoCall]
    /\ stmt = NoStmt
    /\ req = [r \in Slots |-> NoRequest]

\* The tracked array the call of slot r works on stays within len entries.
MayTrack(r, len) ==
    call[r].pc = "query" /\ call[r].op = "addTrackedCourse" /\ call[r].userId \in DOMAIN users
        => Len(users[call[r].userId].tracked_courses) < len

\* The steps of the helper calls of slot r after the invocation.
HelperSteps(r, len) ==
    \/ connect(r)
    \/ connectThrows(r)
    \/ MayTrack(r, len) /\ addTrackedCourseQuery(r)
    \/ removeTrackedCourseQuery(r)
    \/ getTrackedCoursesQuery(r)
    \/ release(r)
    \/ getTrackedCoursesReturn(r)
    \/ queryThrows(r)

\* Invocations of the helpers in slot r for the users ids.
HelperCalls(r, ids) ==
    \/ \E userId \in ids, courseId \in TrackedIds : addTrackedCourse(r, userId, courseId)
    \/ \E userId \in ids, courseId \in TrackedIds : removeTrackedCourse(r, userId, courseId)
    \/ \E userId \in ids : getTrackedCourses(r, userId)

\* One stored user; two helper calls at a time, for user 1 (stored once
\* inserted) and user 2 (never stored).
NextTrack ==
    \/ seq.users < 1 /\ execInsertUser("a@x.com", hashSync("pw1", "s1"))
    \/ \E r \in Slots : HelperCalls(r, {1, 2})
    \/ \E r \in Slots : HelperSteps(r, MaxTracked)

SpecTrack == Init /\ [][NextTrack]_vars

\* INSERTs into users, in any order.
NextCreate ==
    \E email \in Emails, password \in Passwords :
        execInsertUser(email, hashSync(password, "s1"))

SpecCreate == Init /\ [][NextCreate]_vars

\* Statements on courses and assignments.
NextCatalog ==
    \/ \E name \in {"c1"} : execInsertCourse(name)
    \/ \E id \in CourseIds : execDeleteCourse(id)
    \/ \E title \in {"t1"}, course_id \in CourseIds \cup {NULL} :
            execInsertAssignment(title, course_id)
    \/ \E id \in AssignmentIds, title \in {"t2"}, course_id \in CourseIds \cup {NULL} :
            execUpdateAssignment(id, title, course_id)
    \/ \E id \in AssignmentIds : execDeleteAssignment(id)

SpecCatalog == Init /\ [][NextCatalog]_vars

\* Courses are created and deleted while a user tracks them: one stored user
\* (a second INSERT with the same email is rejected), one helper call at a
\* time, statements on courses, delete requests to the API.
NextDangling ==
    \/ seq.users < 2 /\ execInsertUser("a@x.com", hashSync("pw1", "s1"))
    \/ \E name \in {"c1"} : execInsertCourse(name)
    \/ \E id \in CourseIds : execDeleteCourse(id)
    \/ HelperCalls("r1", {1, 2})
    \/ HelperSteps("r1", MaxDangling)
    \/ \E id \in CourseIds : request("r1", [op |-> "deleteCourse", params |-> <<id>>])

SpecDangling == Init /\ [][NextDangling]_vars

\* Users and courses are stored, requests are sent to the API, two at a time.
NextHttp ==
    \/ seq.users < 2 /\ \E email \in Emails : execInsertUser(email, hashSync("pw1", "s1"))
    \/ \E name \in {"c1"} : execInsertCourse(name)
    \/ \E r \in Slots, q \in Requests : request(r, q)

SpecHttp == Init /\ [][NextHttp]_vars

-----------------------------------------------------------------------------
\* Properties.

\* The elements of arr other than x, in their order.
Others(arr, x) == SelectSeq(arr, LAMBDA y : y # x)

\* The tracked_courses array of the stored user userId.
Tracked(U, userId) == U[userId].tracked_courses

\* In this step the store runs the statement of the call of helper op in
\* slot r.
Runs(r, op) ==
    /\ call[r].pc = "query" /\ call[r].op = op
    /\ call'[r].pc = "result"

\* The call of slot r was of helper op and has settled with outcome.
Settled(r, op, outcome) ==
    call[r].pc = "done" /\ call[r].op = op /\ call[r].outcome = outcome

\* This step runs a statement of kind op on the store directly (every step of
\* a helper call changes call, every new request changes req).
Ran(op) == stmt'.op = op /\ call' = call /\ req' = req

\* This step sends a request of kind op in slot r.
Sent(r, op) == req'[r] # req[r] /\ req'[r].op = op

\* C1: addTrackedCourse(u, c) on an existing user appends exactly one c at the
\* end of u's tracked sequence, present already or not; the earlier entries
\* keep their places, and getTrackedCourses(u) then returns a sequence that
\* contains c.
C1_AddAppendsOne ==
    [][\A r \in Slots :
        (Runs(r, "addTrackedCourse") /\ call[r].userId \in DOMAIN users) =>
            LET u == call[r].userId
                c == call[r].courseId
                old == Tracked(users, u)
                new == Tracked(users', u)
            IN /\ Len(new) = Len(old) + 1
               /\ new[Len(new)] = c
               /\ SubSeq(new, 1, Len(old)) = old
               /\ Count(new, c) = Count(old, c) + 1
               /\ SelectTracked(users', u) # {}
               /\ \A row \in SelectTracked(users', u) : Contains(row.tracked_courses, c)
    ]_vars

\* C1 witness: getTrackedCourses(u) returned a sequence of two entries with c
\* in it once, addTrackedCourse(u, c) resolved, and the stored sequence is the
\* returned one with a second c at its end.
C1_Witness ==
    \E r \in Slots, s \in Slots :
        /\ Settled(r, "addTrackedCourse", "resolved")
        /\ Settled(s, "getTrackedCourses", "resolved")
        /\ call[r].userId = call[s].userId
        /\ call[r].userId \in DOMAIN users
        /\ Len(call[s].value) = 2
        /\ Count(call[s].value, call[r].courseId) = 1
        /\ Tracked(users, call[r].userId) = call[s].value \o <<call[r].courseId>>

\* C2: removeTrackedCourse(u, c), after c was added once or more, removes every
\* occurrence of c: getTrackedCourses(u) then returns a sequence without c,
\* which is the earlier one's other entries in their order.
C2_RemoveRemovesAll ==
    [][\A r \in Slots :
        (/\ Runs(r, "removeTrackedCourse")
         /\ call[r].userId \in DOMAIN users
         /\ Count(Tracked(users, call[r].userId), call[r].courseId) >= 1) =>
            LET u == call[r].userId
                c == call[r].courseId
            IN /\ Count(Tracked(users', u), c) = 0
               /\ SelectTracked(users', u) # {}
               /\ \A row \in SelectTracked(users', u) : ~Contains(row.tracked_courses, c)
               /\ Tracked(users', u) = Others(Tracked(users, u), c)
    ]_vars

\* C2 witness: getTrackedCourses(u) returned three entries, two of them c,
\* removeTrackedCourse(u, c) resolved, and the stored sequence is the third
\* entry alone.
C2_Witness ==
    \E r \in Slots, s \in Slots :
        /\ Settled(r, "removeTrackedCourse", "resolved")
        /\ Settled(s, "getTrackedCourses", "resolved")
        /\ call[r].userId = call[s].userId
        /\ call[r].userId \in DOMAIN users
        /\ Len(call[s].value) = 3
        /\ Count(call[s].value, call[r].courseId) = 2
        /\ Len(Tracked(users, call[r].userId)) = 1
        /\ Tracked(users, call[r].userId) = Others(call[s].value, call[r].courseId)

\* C3: the statement of removeTrackedCourse(u, c) for a course that is not in
\* u's sequence changes no user record, and the untrack request for such a
\* course is answered 200.
C3_RemoveAbsentIsNoOp ==
    [][\A r \in Slots :
        /\ (/\ Runs(r, "removeTrackedCourse")
            /\ call[r].userId \in DOMAIN users
            /\ ~Contains(Tracked(users, call[r].userId), call[r].courseId)) =>
               users' = users
        /\ (/\ Sent(r, "untrackCourse")
            /\ req'[r].params[1] \in DOMAIN users
            /\ ~Contains(Tracked(users, req'[r].params[1]), req'[r].params[2])) =>
               /\ req'[r].status = 200
               /\ users' = users
    ]_vars

\* C4: a createUser request whose email a stored user holds already is answered
\* 400 and adds no record, whatever the interleaving of the requests.
C4_DuplicateEmailAnswered400 ==
    [][\A r \in Slots :
        (/\ Sent(r, "createUser")
         /\ SelectUsersByEmail(users, req'[r].params[1]) # {}) =>
            /\ req'[r].status = 400
            /\ users' = users
    ]_vars

\* C5: no two stored user records have the same email.
C5_EmailsUnique ==
    \A i \in DOMAIN users : \A j \in DOMAIN users :
        i # j => users[i].email # users[j].email

\* C5 witness: two users are stored and the last INSERT, for an email one of
\* them holds, was rejected: the sequence has served three values.
C5_Witness ==
    /\ Cardinality(DOMAIN users) = 2
    /\ seq.users = 3
    /\ stmt.op = "insertUser" /\ stmt.err
    /\ SelectUsersByEmail(users, stmt.args[1]) # {}

\* C6: a login is answered 200, with a token of the user's id and verified
\* flag, exactly when a stored user has the email and the password matches its
\* hash; any other login is answered 401.
C6_LoginAgainstStore ==
    [][\A r \in Slots :
        Sent(r, "loginUser") =>
            LET match == {u \in SelectUsersByEmail(users, req'[r].params[1]) :
                             compareSync(req'[r].params[2], u.password_hash)}
            IN IF match # {}
               THEN /\ req'[r].status = 200
                    /\ req'[r].body \in {sign(u) : u \in match}
               ELSE req'[r].status = 401
    ]_vars

\* C8: a track_course, untrack_course, tracked_courses or verify request for a
\* userId that no stored user has is answered 404, and no table changes.
C8_MissingUser404 ==
    [][\A r \in Slots :
        (/\ \/ Sent(r, "trackCourse")
            \/ Sent(r, "untrackCourse")
            \/ Sent(r, "getTrackedCoursesForUser")
            \/ Sent(r, "verifyUser")
         /\ req'[r].params[1] \notin DOMAIN users) =>
            /\ req'[r].status = 404
            /\ UNCHANGED <<users, courses, assignments, seq, checkedOut>>
    ]_vars

\* C9: an update or delete of a course or an assignment whose id matches no
\* row is answered 404 and leaves both tables as they were.
C9_MissingRow404 ==
    [][\A r \in Slots :
        (\/ /\ Sent(r, "updateCourse") \/ Sent(r, "deleteCourse")
            /\ req'[r].params[1] \notin DOMAIN courses
         \/ /\ Sent(r, "updateAssignment") \/ Sent(r, "deleteAssignment")
            /\ req'[r].params[1] \notin DOMAIN assignments) =>
            /\ req'[r].status = 404
            /\ UNCHANGED <<courses, assignments>>
    ]_vars

\* C10: deleting a course leaves every user's tracked sequence as it was, the
\* deleted course's id included: getTrackedCourses returns the same sequence.
C10_DeleteKeepsTracked ==
    [][Ran("deleteCourse") =>
            /\ DOMAIN users' = DOMAIN users
            /\ \A u \in DOMAIN users :
                   /\ Tracked(users', u) = Tracked(users, u)
                   /\ SelectTracked(users', u) = SelectTracked(users, u)
    ]_vars

\* C10 witness: the last statement deleted a course (its id was served by the
\* sequence and is no row any more), a user's tracked sequence still holds the
\* id, and getTrackedCourses for that user returned a sequence holding it.
C10_Witness ==
    /\ stmt.op = "deleteCourse" /\ ~stmt.err
    /\ stmt.args[1] \notin DOMAIN courses
    /\ stmt.args[1] <= seq.courses
    /\ \E u \in DOMAIN users :
           /\ Contains(Tracked(users, u), stmt.args[1])
           /\ Settled("r1", "getTrackedCourses", "resolved")
           /\ call["r1"].userId = u
           /\ call["r1"].value = Tracked(users, u)

\* C11: every request is answered (a failure inside its handler by a 500): no
\* request that was sent is left without a response.
C11_EveryRequestAnswered ==
    \A r \in Slots : req[r].pc = "done" => req[r].status # 0

\* The helper calls that hold a connection: between pool.connect() and
\* client.release().
Holding == {r \in Slots : call[r].pc \in {"query", "result"}}

\* C12: the connections checked out are exactly those of the helper calls that
\* have connected and not settled yet, however the calls before them settled:
\* each connection is released once, and when no call is in flight the number
\* of checked-out connections is zero.
C12_ConnectionsReleased ==
    checkedOut = Cardinality(Holding)

\* C12 witness: a getTrackedCourses call for an id that is no stored user's
\* rejected with the TypeError of the missing row, an addTrackedCourse call for
\* a stored user rejected with the error of its query after the store had run
\* the statement (its course is stored), no call is in flight and no
\* connection is checked out.
C12_Witness ==
    /\ \E r \in Slots :
           /\ Settled(r, "getTrackedCourses", "TypeError")
           /\ call[r].userId \notin DOMAIN users
    /\ \E r \in Slots :
           /\ Settled(r, "addTrackedCourse", "QueryError")
           /\ call[r].userId \in DOMAIN users
           /\ Tracked(users, call[r].userId) = <<call[r].courseId>>
    /\ Holding = {}
    /\ checkedOut = 0

\* C13: a record enters users with verified = FALSE; no step removes a record;
\* a verified record stays verified; a record becomes verified only in the
\* step of a verify request for its id; and a verify request for a stored user
\* is answered 200 and leaves the user verified.
C13_VerifiedOnlyByVerify ==
    [][/\ DOMAIN users \subseteq DOMAIN users'
       /\ \A i \in DOMAIN users' \ DOMAIN users : users'[i].verified = FALSE
       /\ \A i \in DOMAIN users :
              /\ users[i].verified => users'[i].verified
              /\ (~users[i].verified /\ users'[i].verified) =>
                     \E r \in Slots : Sent(r, "verifyUser") /\ req'[r].params[1] = i
       /\ \A r \in Slots :
              (Sent(r, "verifyUser") /\ req'[r].params[1] \in DOMAIN users) =>
                  /\ req'[r].status = 200
                  /\ users'[req'[r].params[1]].verified
    ]_vars

\* C14, as stated: deleting a stored course succeeds and removes the course,
\* whether or not a stored assignment references it; creating an assignment,
\* and updating a stored one, succeeds and stores the course_id given, whether
\* or not it is the id of a stored course.
C14_IndependentLifecycles ==
    [][/\ (Ran("deleteCourse") /\ stmt'.args[1] \in DOMAIN courses) =>
              /\ ~stmt'.err
              /\ stmt'.args[1] \notin DOMAIN courses'
       /\ Ran("insertAssignment") =>
              /\ ~stmt'.err
              /\ \E a \in DOMAIN assignments' \ DOMAIN assignments :
                     assignments'[a].course_id = stmt'.args[2]
       /\ (Ran("updateAssignment") /\ stmt'.args[1] \in DOMAIN assignments) =>
              /\ ~stmt'.err
              /\ assignments'[stmt'.args[1]].course_id = stmt'.args[3]
    ]_vars

\* C14, amended: the reference from assignments.course_id to courses is
\* enforced. Deleting a stored course succeeds and removes the course exactly
\* when no stored assignment references it; otherwise the DELETE fails and
\* both tables stay as they were. Creating an assignment, and updating a
\* stored one, succeeds and stores the course_id given exactly when it is NULL
\* or the id of a stored course; otherwise the statement fails and both tables
\* stay as they were.
C14_ReferenceEnforced ==
    [][/\ (Ran("deleteCourse") /\ stmt'.args[1] \in DOMAIN courses) =>
              IF \E a \in DOMAIN assignments : assignments[a].course_id = stmt'.args[1]
              THEN /\ stmt'.err
                   /\ UNCHANGED <<courses, assignments>>
              ELSE /\ ~stmt'.err
                   /\ stmt'.args[1] \notin DOMAIN courses'
                   /\ UNCHANGED assignments
       /\ Ran("insertAssignment") =>
              IF stmt'.args[2] \in {NULL} \cup DOMAIN courses
              THEN /\ ~stmt'.err
                   /\ \E a \in DOMAIN assignments' \ DOMAIN assignments :
                          assignments'[a].course_id = stmt'.args[2]
                   /\ UNCHANGED courses
              ELSE /\ stmt'.err
                   /\ UNCHANGED <<courses, assignments>>
       /\ (Ran("updateAssignment") /\ stmt'.args[1] \in DOMAIN assignments) =>
              IF stmt'.args[3] \in {NULL} \cup DOMAIN courses
              THEN /\ ~stmt'.err
                   /\ assignments'[stmt'.args[1]].course_id = stmt'.args[3]
                   /\ UNCHANGED courses
              ELSE /\ stmt'.err
                   /\ UNCHANGED <<courses, assignments>>
    ]_vars

\* C14 witness: the last statement, a DELETE of a stored course that an
\* assignment references, failed; the course and the assignment are still
\* stored, beside an assignment with no course.
C14_Witness ==
    /\ stmt.op = "deleteCourse" /\ stmt.err
    /\ stmt.args[1] \in DOMAIN courses
    /\ Referenced(assignments, stmt.args[1])
    /\ \E a \in DOMAIN assignments : assignments[a].course_id = NULL

\* The calls of helper op for user u whose statement the store runs in this
\* step.
Applied(u, op) == {r \in Slots : Runs(r, op) /\ call[r].userId = u}

\* C15: no update is lost. The step in which the store runs the statement of
\* an addTrackedCourse call appends its course to the sequence stored at that
\* step, whatever was stored when the call was made; the step in which it runs
\* the statement of a removeTrackedCourse call removes its course from the
\* sequence stored at that step; no other step changes a stored sequence. The
\* final sequence of any interleaving is thus what the calls' updates give
\* when applied one by one, in the order of these steps.
C15_NoLostUpdate ==
    [][/\ \A u \in DOMAIN users' \ DOMAIN users : Tracked(users', u) = <<>>
       /\ \A u \in DOMAIN users :
              LET adds == Applied(u, "addTrackedCourse")
                  removes == Applied(u, "removeTrackedCourse")
              IN CASE adds # {} ->
                          \E r \in adds :
                              Tracked(users', u) =
                                  Append(Tracked(users, u), call[r].courseId)
                   [] removes # {} ->
                          \E r \in removes :
                              Tracked(users', u) =
                                  Others(Tracked(users, u), call[r].courseId)
                   [] OTHER -> Tracked(users', u) = Tracked(users, u)
    ]_vars

\* C15 witness: two addTrackedCourse calls for one user and two different
\* courses were in flight together and neither update is lost: the call of
\* slot s, whose course is stored first, still waits for its result, the call
\* of slot r, whose course is stored second, has resolved.
C15_Witness ==
    \E r \in Slots, s \in Slots :
        /\ r # s
        /\ Settled(r, "addTrackedCourse", "resolved")
        /\ call[s].pc = "result" /\ call[s].op = "addTrackedCourse"
        /\ call[r].userId = call[s].userId
        /\ call[r].userId \in DOMAIN users
        /\ call[r].courseId # call[s].courseId
        /\ checkedOut = 1
        /\ Tracked(users, call[r].userId) = <<call[s].courseId, call[r].courseId>>

====
